---------------------------- MODULE Spec2Model ----------------------------
(***************************************************************************)
(* A model of tinyman/v2/pools.py: the Pool controller of the Tinyman v2   *)
(* SDK.  One Pool object is followed through its construction, its         *)
(* refreshes and its quote / prepare operations, next to the pool account  *)
(* on the ledger that get_pool_info reads.                                 *)
(*                                                                         *)
(* Python's None is modelled by the integer None (-1) in integer fields    *)
(* and by the string "None" in the field exists, which the code only ever  *)
(* sets to True.  A dict that may be empty ({}) is a sequence of length 0  *)
(* or 1.                                                                   *)
(***************************************************************************)
EXTENDS Integers, Sequences, FiniteSets, TLC

VARIABLES
    ledger,  \* the pool account on the ledger, round by round: ledger[r + 1] is
             \* its state at round r, the last entry the state get_pool_info reads
    pool,    \* the fields of the Pool object (self.*)
    ret,     \* outcome of the last call on the Pool: exception, quote, formula calls
    thr      \* the two threads of SpecThreads (idle in Spec)

vars == <<ledger, pool, ret, thr>>

-----------------------------------------------------------------------------
(* Bounds of the model *)

MaxAssetId == 2
MaxRound == 2
MaxAmount == 1
MaxDeposit == 2

AssetIds == 0..MaxAssetId
Amounts == 1..MaxAmount
Deposits == 1..MaxDeposit

None == 0 - 1

\* id of the pool token asset the ledger creates at bootstrap
PoolTokenAssetId == MaxAssetId + 1

\* fee parameters the ledger holds for the pool (spec.md 8: total_fee_share = 3)
TotalFeeShare == 3
ProtocolFeeRatio == 6

-----------------------------------------------------------------------------
(* The ledger: the snapshot source *)

LedgerInit ==
    << [exists |-> FALSE, asset_1_reserves |-> 0, asset_2_reserves |-> 0,
        issued_pool_tokens |-> 0, total_fee_share |-> 0,
        protocol_fee_ratio |-> 0] >>

round == Len(ledger) - 1

chain == ledger[Len(ledger)]

\* get_pool_info_from_account_info on the account as it was at round r: {}
\* when the pool account has no application local state, the decoded state
\* otherwise
InfoAt(r) ==
    LET account == ledger[r + 1]
    IN  IF ~account.exists
        THEN <<>>
        ELSE << [pool_token_asset_id |-> PoolTokenAssetId,
                 asset_1_reserves |-> account.asset_1_reserves,
                 asset_2_reserves |-> account.asset_2_reserves,
                 issued_pool_tokens |-> account.issued_pool_tokens,
                 total_fee_share |-> account.total_fee_share,
                 protocol_fee_ratio |-> account.protocol_fee_ratio,
                 round |-> r] >>

\* get_pool_info: the account is read at the current round
get_pool_info == InfoAt(round)

\* The ledger's own transitions are external to the SDK (spec.md 4.4, 6): the
\* bootstrap, and liquidity added in the ratio 1 : 4 (an initial add of
\* (d, 4d) mints sqrt(d * 4d) = 2d pool tokens, later adds mint in proportion)
ChainBootstrap ==
    /\ ~chain.exists
    /\ round < MaxRound
    /\ ledger' = Append(ledger, [chain EXCEPT !.exists = TRUE,
                                              !.total_fee_share = TotalFeeShare,
                                              !.protocol_fee_ratio = ProtocolFeeRatio])
    /\ UNCHANGED <<pool, ret, thr>>

ChainAddLiquidity ==
    /\ chain.exists
    /\ round < MaxRound
    /\ \E d \in Deposits :
          ledger' = Append(ledger, [chain EXCEPT !.asset_1_reserves = @ + d,
                                                 !.asset_2_reserves = @ + 4 * d,
                                                 !.issued_pool_tokens = @ + 2 * d])
    /\ UNCHANGED <<pool, ret, thr>>

-----------------------------------------------------------------------------
(* The Pool object *)

\* Pool.__init__, lines 150-160: every snapshot field starts as None
PoolInit ==
    [constructed |-> FALSE, asset_1 |-> None, asset_2 |-> None,
     exists |-> "None", pool_token_asset |-> None,
     asset_1_reserves |-> None, asset_2_reserves |-> None,
     issued_pool_tokens |-> None, total_fee_share |-> None,
     protocol_fee_ratio |-> None, last_refreshed_round |-> None]

\* Python truth value of self.exists (None or True) and of an integer or None
Truthy(x) == x = "True"

Falsy(n) == n = None \/ n = 0

\* the caller's pair taken in the order given
OrderAssets_AsGiven(asset_a, asset_b) == <<asset_a, asset_b>>

\* Pool.__init__, lines 143-148: <<asset_1, asset_2>> from the caller's pair
OrderAssets(asset_a, asset_b) ==
    IF asset_a > asset_b THEN <<asset_a, asset_b>> ELSE <<asset_b, asset_a>>

\* update_from_info with the issued_pool_tokens assignment (line 203) left out
update_from_info_KeepsIssued(p, info) ==
    [p EXCEPT !.exists = IF info.pool_token_asset_id # None THEN "True" ELSE @,
              !.pool_token_asset = info.pool_token_asset_id,
              !.asset_1_reserves = info.asset_1_reserves,
              !.asset_2_reserves = info.asset_2_reserves,
              !.total_fee_share = info.total_fee_share,
              !.protocol_fee_ratio = info.protocol_fee_ratio,
              !.last_refreshed_round = info.round]

\* update_from_info with the last_refreshed_round assignment (line 208) left out
update_from_info_KeepsRound(p, info) ==
    [p EXCEPT !.exists = IF info.pool_token_asset_id # None THEN "True" ELSE @,
              !.pool_token_asset = info.pool_token_asset_id,
              !.asset_1_reserves = info.asset_1_reserves,
              !.asset_2_reserves = info.asset_2_reserves,
              !.issued_pool_tokens = info.issued_pool_tokens,
              !.total_fee_share = info.total_fee_share,
              !.protocol_fee_ratio = info.protocol_fee_ratio]

\* Pool.update_from_info.  asset_1_protocol_fees, asset_2_protocol_fees and
\* algo_balance are copied from info the same way; no operation reads them.
update_from_info(p, info) ==
    [p EXCEPT !.exists = IF info.pool_token_asset_id # None THEN "True" ELSE @,
              !.pool_token_asset = info.pool_token_asset_id,
              !.asset_1_reserves = info.asset_1_reserves,
              !.asset_2_reserves = info.asset_2_reserves,
              !.issued_pool_tokens = info.issued_pool_tokens,
              !.total_fee_share = info.total_fee_share,
              !.protocol_fee_ratio = info.protocol_fee_ratio,
              !.last_refreshed_round = info.round]

\* a refresh that does not read the source
refresh_NoRead(p) == p

\* Pool.refresh(): reads the source; an empty info leaves the object as it is
refresh(p) ==
    LET info == get_pool_info
    IN  IF info = <<>> THEN p ELSE update_from_info(p, info[1])

-----------------------------------------------------------------------------
(* Outcome of a call *)

\* a slippage is a float of the source; here it is a whole number of percent
SlippageScale == 100

\* the default of the slippage parameter of the quote methods (0.05)
DefaultSlippage == 5

\* The contents of a quote.  Amounts are <<asset, amount>> pairs, as
\* AssetAmount; amounts_in and amounts_out list them in the order asset_1,
\* asset_2; internal_swap_quote is empty or holds one InternalSwapQuote.
\* price_impact, a float no amount depends on, is left out.
QuoteContents(amounts_in, amounts_out, pool_token_asset_amount, swap_fees, swap_type, internal_swap_quote) ==
    [amounts_in |-> amounts_in, amounts_out |-> amounts_out,
     pool_token_asset_amount |-> pool_token_asset_amount, swap_fees |-> swap_fees,
     swap_type |-> swap_type, internal_swap_quote |-> internal_swap_quote]

NoQuote == QuoteContents(<<>>, <<>>, None, <<>>, "None", <<>>)

InternalSwapQuote(amount_in, amount_out, swap_fees) ==
    <<[amount_in |-> amount_in, amount_out |-> amount_out, swap_fees |-> swap_fees]>>

\* op: the method called; assets: the assets of its AssetAmount / Asset
\* arguments; err: the exception raised ("none": it returned); quote: the class
\* of the quote returned; slippage: whether the quote was given a slippage;
\* calls: the functions called, args: the arguments of the first one (of a
\* construction: the info supplied);
\* txn: whether a transaction group was prepared; tolerance: the slippage the
\* quote was given; contents: the contents of the quote; handed: the amounts
\* passed on to the functions that build the transactions
Ret(op, assets, err, quote, slippage, calls, args, txn) ==
    [op |-> op, assets |-> assets, err |-> err, quote |-> quote,
     slippage |-> slippage, calls |-> calls, args |-> args, txn |-> txn,
     tolerance |-> None, contents |-> NoQuote, handed |-> <<>>]

Raise(op, assets, err) == Ret(op, assets, err, "None", FALSE, {}, <<>>, FALSE)

Done(op) == Raise(op, <<>>, "none")

\* the quote returned by a call: the class and contents, the slippage it was
\* given (None for the quote that takes none), the formula functions called
Quote(op, assets, quote, slippage, calls, args, contents) ==
    [Ret(op, assets, "none", quote, slippage # None, calls, args, FALSE)
        EXCEPT !.tolerance = slippage, !.contents = contents]

\* SpecThreads: wpc / rpc are the positions of the refreshing and of the quoting
\* thread (0: not in a call), winfo the info the refreshing thread holds,
\* rargs the arguments the quoting thread has evaluated so far
ThrIdle == [wpc |-> 0, winfo |-> <<>>, rpc |-> 0, rargs |-> <<>>]

-----------------------------------------------------------------------------
(* Construction and refresh *)

\* the outcome of a construction: whether the constructor read the pool
\* account through the client (fetch), and the info the caller supplied
Constructed(op, assets, fetch, info) ==
    Ret(op, assets, "none", "None", FALSE,
        IF fetch THEN {"get_pool_info"} ELSE {}, info, FALSE)

\* Pool(client, asset_a, asset_b, info, fetch).  info is None or a dict the
\* caller got from get_pool_info at an earlier round r.
Construct ==
    /\ ~pool.constructed
    /\ \E asset_a \in AssetIds, asset_b \in AssetIds, fetch \in BOOLEAN,
          info \in {<<>>} \cup {InfoAt(r) : r \in 0..round} :
          /\ asset_a # asset_b
          /\ LET pair == OrderAssets(asset_a, asset_b)
                 p0 == [PoolInit EXCEPT !.constructed = TRUE,
                                        !.asset_1 = pair[1], !.asset_2 = pair[2]]
             IN  pool' = IF fetch THEN refresh(p0)
                         ELSE IF info # <<>> THEN update_from_info(p0, info[1])
                         ELSE p0
          /\ ret' = Constructed("__init__", <<asset_a, asset_b>>, fetch, info)
    /\ UNCHANGED <<ledger, thr>>

\* Pool.from_account_info(account_info, client), account_info the pool
\* account as the caller read it at round r: the ids come from the info, the
\* info is passed on, and fetch is left at its default, True
FromAccountInfo ==
    /\ ~pool.constructed
    /\ \E asset_1_id \in AssetIds, asset_2_id \in AssetIds, r \in 0..round :
          /\ asset_1_id > asset_2_id
          /\ LET info == InfoAt(r)
                 pair == OrderAssets(asset_1_id, asset_2_id)
                 p0 == [PoolInit EXCEPT !.constructed = TRUE,
                                        !.asset_1 = pair[1], !.asset_2 = pair[2]]
             IN  IF info = <<>>
                 THEN /\ pool' = pool
                      /\ ret' = Raise("from_account_info", <<>>, "KeyError")
                 ELSE /\ pool' = refresh(p0)
                      /\ ret' = Constructed("from_account_info",
                                            <<asset_1_id, asset_2_id>>, TRUE, info)
    /\ UNCHANGED <<ledger, thr>>

\* pool.refresh()
Refresh ==
    /\ pool.constructed
    /\ pool' = refresh(pool)
    /\ ret' = Done("refresh")
    /\ UNCHANGED <<ledger, thr>>

\* pool.refresh(info) and pool.update_from_info(info), info a dict the caller
\* got from get_pool_info at round r (now or earlier) and kept; an empty dict
\* raises KeyError at info["pool_token_asset_id"], before any assignment
UpdateFromInfo ==
    /\ pool.constructed
    /\ \E op \in {"refresh(info)", "update_from_info"}, r \in 0..round :
          LET info == InfoAt(r)
          IN  IF info = <<>>
              THEN pool' = pool /\ ret' = Raise(op, <<>>, "KeyError")
              ELSE pool' = update_from_info(pool, info[1]) /\ ret' = Done(op)
    /\ UNCHANGED <<ledger, thr>>

-----------------------------------------------------------------------------
(* Formula library (tinyman/v2/formulas.py).  A function that fails (division *)
(* by zero, insufficient liquidity) gives the empty tuple.                    *)

\* floor and ceiling of a / b, b # 0 (Python's a // b and -(-a // b))
FloorDiv(a, b) == IF b > 0 THEN a \div b ELSE (0 - a) \div (0 - b)

CeilDiv(a, b) == 0 - FloorDiv(0 - a, b)

\* the largest k in lo..hi with k * k <= n, for lo * lo <= n
RECURSIVE SqrtBetween(_, _, _)
SqrtBetween(n, lo, hi) ==
    IF lo >= hi THEN lo
    ELSE LET mid == (lo + hi + 1) \div 2
         IN  IF mid <= n \div mid THEN SqrtBetween(n, mid, hi)
                               ELSE SqrtBetween(n, lo, mid - 1)

\* integer square root (math.isqrt)
ISqrt(n) == SqrtBetween(n, 0, n)

\* fee shares are parts of FeeDenominator: total_fee_share = 3 is 0.3%
FeeDenominator == 1000

\* initial mint, spec.md 4.2: the integer square root of the product
calculate_initial_add_liquidity(asset_1_amount, asset_2_amount) ==
    ISqrt(asset_1_amount * asset_2_amount)

\* fixed-input swap, spec.md 4.2: the fee is deducted from the input, the
\* output is floored.  << swap_output_amount, total_fee_amount >>
calculate_fixed_input_swap(input_supply, output_supply, swap_input_amount, total_fee_share) ==
    LET total_fee_amount == FloorDiv(swap_input_amount * total_fee_share, FeeDenominator)
        input_after_fee == swap_input_amount - total_fee_amount
    IN  IF input_supply + input_after_fee = 0
        THEN <<>>
        ELSE << FloorDiv(output_supply * input_after_fee,
                         input_supply + input_after_fee),
                total_fee_amount >>

\* fixed-output swap, spec.md 4.2: the input required before the fee is
\* ceiled, then grossed up so that the input less its fee is that amount;
\* fails when the output is not below the output supply.
\* << swap_input_amount, total_fee_amount >>
calculate_fixed_output_swap(input_supply, output_supply, swap_output_amount, total_fee_share) ==
    IF swap_output_amount >= output_supply
    THEN <<>>
    ELSE LET required == CeilDiv(input_supply * swap_output_amount,
                                 output_supply - swap_output_amount)
             swap_input_amount == FloorDiv(required * FeeDenominator,
                                           FeeDenominator - total_fee_share)
         IN  << swap_input_amount, swap_input_amount - required >>

\* fee split, spec.md 4.2: the protocol's cut of a fee, floored
calculate_protocol_fee_amount(total_fee_amount, protocol_fee_ratio) ==
    FloorDiv(total_fee_amount, protocol_fee_ratio)

\* subsequent liquidity add, spec.md 4.2.  The pool tokens follow the growth
\* of the geometric mean of the reserves; the part of each deposit the minted
\* tokens do not account for is the internal swap: in the over-supplied
\* asset it is the swap input, on which the fee is charged (in pool tokens
\* too), in the other asset the swap output.
\* << pool_token_asset_amount, swap_from_asset_1_to_asset_2, swap_in_amount,
\*    swap_out_amount, swap_total_fee_amount >>
calculate_subsequent_add_liquidity(asset_1_reserves, asset_2_reserves, issued_pool_tokens, total_fee_share, asset_1_amount, asset_2_amount) ==
    LET old_k == asset_1_reserves * asset_2_reserves
        new_asset_1_reserves == asset_1_reserves + asset_1_amount
        new_asset_2_reserves == asset_2_reserves + asset_2_amount
        new_k == new_asset_1_reserves * new_asset_2_reserves
    IN  IF old_k <= 0 \/ ISqrt(old_k) = 0
        THEN <<>>
        ELSE
          LET new_issued_pool_tokens ==
                  FloorDiv(issued_pool_tokens * ISqrt(new_k), ISqrt(old_k))
              minted == new_issued_pool_tokens - issued_pool_tokens
              asset_1_swap_amount ==
                  asset_1_amount
                    - FloorDiv(minted * new_asset_1_reserves, new_issued_pool_tokens)
              asset_2_swap_amount ==
                  asset_2_amount
                    - FloorDiv(minted * new_asset_2_reserves, new_issued_pool_tokens)
              swap_from_asset_1_to_asset_2 ==
                  asset_1_amount * asset_2_reserves > asset_2_amount * asset_1_reserves
              swap_in_without_fee ==
                  IF swap_from_asset_1_to_asset_2 THEN asset_1_swap_amount
                                                  ELSE asset_2_swap_amount
              swap_out ==
                  IF swap_from_asset_1_to_asset_2 THEN 0 - asset_2_swap_amount
                                                  ELSE 0 - asset_1_swap_amount
              in_reserves ==
                  IF swap_from_asset_1_to_asset_2 THEN new_asset_1_reserves
                                                  ELSE new_asset_2_reserves
              total_fee_amount ==
                  FloorDiv(swap_in_without_fee * total_fee_share,
                           FeeDenominator - total_fee_share)
              fee_as_pool_tokens ==
                  FloorDiv(total_fee_amount * new_issued_pool_tokens, 2 * in_reserves)
          IN  IF new_issued_pool_tokens = 0
              THEN <<>>
              ELSE << minted - fee_as_pool_tokens, swap_from_asset_1_to_asset_2,
                      swap_in_without_fee + total_fee_amount,
                      IF swap_out > 0 THEN swap_out ELSE 0, total_fee_amount >>

\* proportional remove, spec.md 4.2: <<out_1, out_2>>, or <<>> for the
\* division by zero when no pool token is issued (spec.md 7)
calculate_remove_liquidity_output_amounts(pool_token_asset_amount, asset_1_reserves, asset_2_reserves, issued_pool_tokens) ==
    IF issued_pool_tokens = 0
    THEN <<>>
    ELSE << (pool_token_asset_amount * asset_1_reserves) \div issued_pool_tokens,
            (pool_token_asset_amount * asset_2_reserves) \div issued_pool_tokens >>

-----------------------------------------------------------------------------
(* The quote and bootstrap methods: each maps the object p and the arguments *)
(* to << the object after the call, the outcome >>                           *)

\* prepare_bootstrap_transactions without the refresh of line 274
prepare_bootstrap_transactions_NoRefresh(p) ==
    IF Truthy(p.exists)
    THEN <<p, Raise("prepare_bootstrap_transactions", <<>>, "AlreadyBootstrapped")>>
    ELSE <<p, Ret("prepare_bootstrap_transactions", <<>>, "none", "None", FALSE,
                  {}, <<>>, TRUE)>>

\* Pool.prepare_bootstrap_transactions
prepare_bootstrap_transactions(p) ==
    LET q == refresh(p)
    IN  IF Truthy(q.exists)
        THEN <<q, Raise("prepare_bootstrap_transactions", <<>>, "AlreadyBootstrapped")>>
        ELSE <<q, Ret("prepare_bootstrap_transactions", <<>>, "none", "None", FALSE,
                      {}, <<>>, TRUE)>>

\* the InternalSwapQuote of an add quote, from the result of
\* calculate_subsequent_add_liquidity (lines 343-357 and 425-439)
AddLiquidityInternalSwapQuote(q, out) ==
    InternalSwapQuote(<<IF out[2] THEN q.asset_1 ELSE q.asset_2, out[3]>>,
                      <<IF out[2] THEN q.asset_2 ELSE q.asset_1, out[4]>>,
                      <<IF out[2] THEN q.asset_1 ELSE q.asset_2, out[5]>>)

\* Pool.fetch_flexible_add_liquidity_quote(amount_a, amount_b, slippage)
fetch_flexible_add_liquidity_quote(p, asset_a, a, asset_b, b, slippage) ==
    LET op == "fetch_flexible_add_liquidity_quote"
        assets == <<asset_a, asset_b>>
        calls == {"calculate_subsequent_add_liquidity"}
    IN  IF {p.asset_1, p.asset_2} # {asset_a, asset_b}
        THEN <<p, Raise(op, assets, "AssertionError")>>
        ELSE
          LET amount_1 == IF asset_a = p.asset_1 THEN a ELSE b
              amount_2 == IF asset_a = p.asset_2 THEN a ELSE b
              q == refresh(p)
              args == <<q.asset_1_reserves, q.asset_2_reserves,
                        q.issued_pool_tokens, q.total_fee_share,
                        amount_1, amount_2>>
              out == calculate_subsequent_add_liquidity(
                         args[1], args[2], args[3], args[4], args[5], args[6])
          IN  IF ~Truthy(q.exists)
              THEN <<q, Raise(op, assets, "BootstrapIsRequired")>>
              ELSE IF Falsy(q.issued_pool_tokens)
              THEN <<q, Raise(op, assets, "PoolHasNoLiquidity")>>
              ELSE IF out = <<>>
              THEN <<q, Ret(op, assets, "ZeroDivisionError", "None", FALSE, calls,
                            args, FALSE)>>
              ELSE <<q, Quote(op, assets, "FlexibleAddLiquidityQuote", slippage,
                              calls, args,
                              QuoteContents(<< <<q.asset_1, amount_1>>,
                                               <<q.asset_2, amount_2>> >>,
                                            <<>>, out[1], <<>>, "None",
                                            AddLiquidityInternalSwapQuote(q, out)))>>

\* fetch_single_asset_add_liquidity_quote with the amount passed as
\* asset_2_amount in the asset_1 branch too
fetch_single_asset_add_liquidity_quote_OtherSide(p, asset_a, a, slippage) ==
    LET op == "fetch_single_asset_add_liquidity_quote"
        assets == <<asset_a>>
        calls == {"calculate_subsequent_add_liquidity"}
        q == refresh(p)
        quote(asset_1_amount, asset_2_amount) ==
            LET args == <<q.asset_1_reserves, q.asset_2_reserves,
                          q.issued_pool_tokens, q.total_fee_share,
                          asset_1_amount, asset_2_amount>>
                out == calculate_subsequent_add_liquidity(
                           args[1], args[2], args[3], args[4], args[5], args[6])
            IN  IF out = <<>>
                THEN <<q, Ret(op, assets, "ZeroDivisionError", "None", FALSE,
                              calls, args, FALSE)>>
                ELSE <<q, Quote(op, assets, "SingleAssetAddLiquidityQuote",
                                slippage, calls, args,
                                QuoteContents(<< <<asset_a, a>> >>, <<>>, out[1],
                                              <<>>, "None",
                                              AddLiquidityInternalSwapQuote(q, out)))>>
    IN  IF ~Truthy(q.exists)
        THEN <<q, Raise(op, assets, "BootstrapIsRequired")>>
        ELSE IF Falsy(q.issued_pool_tokens)
        THEN <<q, Raise(op, assets, "PoolHasNoLiquidity")>>
        ELSE IF asset_a = q.asset_1
        THEN quote(0, a)
        ELSE IF asset_a = q.asset_2
        THEN quote(0, a)
        ELSE <<q, Raise(op, assets, "AssertionError")>>

\* Pool.fetch_single_asset_add_liquidity_quote(amount_a, slippage)
fetch_single_asset_add_liquidity_quote(p, asset_a, a, slippage) ==
    LET op == "fetch_single_asset_add_liquidity_quote"
        assets == <<asset_a>>
        calls == {"calculate_subsequent_add_liquidity"}
        q == refresh(p)
        quote(asset_1_amount, asset_2_amount) ==
            LET args == <<q.asset_1_reserves, q.asset_2_reserves,
                          q.issued_pool_tokens, q.total_fee_share,
                          asset_1_amount, asset_2_amount>>
                out == calculate_subsequent_add_liquidity(
                           args[1], args[2], args[3], args[4], args[5], args[6])
            IN  IF out = <<>>
                THEN <<q, Ret(op, assets, "ZeroDivisionError", "None", FALSE,
                              calls, args, FALSE)>>
                ELSE <<q, Quote(op, assets, "SingleAssetAddLiquidityQuote",
                                slippage, calls, args,
                                QuoteContents(<< <<asset_a, a>> >>, <<>>, out[1],
                                              <<>>, "None",
                                              AddLiquidityInternalSwapQuote(q, out)))>>
    IN  IF ~Truthy(q.exists)
        THEN <<q, Raise(op, assets, "BootstrapIsRequired")>>
        ELSE IF Falsy(q.issued_pool_tokens)
        THEN <<q, Raise(op, assets, "PoolHasNoLiquidity")>>
        ELSE IF asset_a = q.asset_1
        THEN quote(a, 0)
        ELSE IF asset_a = q.asset_2
        THEN quote(0, a)
        ELSE <<q, Raise(op, assets, "AssertionError")>>

\* fetch_initial_add_liquidity_quote without the issued_pool_tokens test
fetch_initial_add_liquidity_quote_NoLiquidityCheck(p, asset_a, a, asset_b, b) ==
    LET op == "fetch_initial_add_liquidity_quote"
        assets == <<asset_a, asset_b>>
    IN  IF {p.asset_1, p.asset_2} # {asset_a, asset_b}
        THEN <<p, Raise(op, assets, "AssertionError")>>
        ELSE
          LET amount_1 == IF asset_a = p.asset_1 THEN a ELSE b
              amount_2 == IF asset_a = p.asset_2 THEN a ELSE b
              q == refresh(p)
          IN  IF ~Truthy(q.exists)
              THEN <<q, Raise(op, assets, "BootstrapIsRequired")>>
              ELSE <<q, Quote(op, assets, "InitialAddLiquidityQuote", None,
                              {"calculate_initial_add_liquidity"},
                              <<amount_1, amount_2>>,
                              QuoteContents(<< <<q.asset_1, amount_1>>,
                                               <<q.asset_2, amount_2>> >>,
                                            <<>>,
                                            calculate_initial_add_liquidity(
                                                amount_1, amount_2),
                                            <<>>, "None", <<>>))>>

\* Pool.fetch_initial_add_liquidity_quote(amount_a, amount_b); the quote is
\* built without a slippage argument
fetch_initial_add_liquidity_quote(p, asset_a, a, asset_b, b) ==
    LET op == "fetch_initial_add_liquidity_quote"
        assets == <<asset_a, asset_b>>
    IN  IF {p.asset_1, p.asset_2} # {asset_a, asset_b}
        THEN <<p, Raise(op, assets, "AssertionError")>>
        ELSE
          LET amount_1 == IF asset_a = p.asset_1 THEN a ELSE b
              amount_2 == IF asset_a = p.asset_2 THEN a ELSE b
              q == refresh(p)
          IN  IF ~Truthy(q.exists)
              THEN <<q, Raise(op, assets, "BootstrapIsRequired")>>
              ELSE IF ~Falsy(q.issued_pool_tokens)
              THEN <<q, Raise(op, assets, "PoolAlreadyHasLiquidity")>>
              ELSE <<q, Quote(op, assets, "InitialAddLiquidityQuote", None,
                              {"calculate_initial_add_liquidity"},
                              <<amount_1, amount_2>>,
                              QuoteContents(<< <<q.asset_1, amount_1>>,
                                               <<q.asset_2, amount_2>> >>,
                                            <<>>,
                                            calculate_initial_add_liquidity(
                                                amount_1, amount_2),
                                            <<>>, "None", <<>>))>>

\* fetch_remove_liquidity_quote with the two reserves exchanged
fetch_remove_liquidity_quote_ReservesSwapped(p, pool_token_asset_in, slippage) ==
    LET op == "fetch_remove_liquidity_quote"
        calls == {"calculate_remove_liquidity_output_amounts"}
    IN  IF ~Truthy(p.exists)
        THEN <<p, Raise(op, <<>>, "BootstrapIsRequired")>>
        ELSE
          LET q == refresh(p)
              args == <<pool_token_asset_in, q.asset_2_reserves,
                        q.asset_1_reserves, q.issued_pool_tokens>>
              out == calculate_remove_liquidity_output_amounts(
                         args[1], args[2], args[3], args[4])
          IN  IF out = <<>>
              THEN <<q, Ret(op, <<>>, "ZeroDivisionError", "None", FALSE, calls,
                            args, FALSE)>>
              ELSE <<q, Quote(op, <<>>, "RemoveLiquidityQuote", slippage, calls,
                              args,
                              QuoteContents(<<>>,
                                            << <<q.asset_1, out[1]>>,
                                               <<q.asset_2, out[2]>> >>,
                                            pool_token_asset_in, <<>>, "None",
                                            <<>>))>>

\* Pool.fetch_remove_liquidity_quote(pool_token_asset_in, slippage):
\* self.exists is tested before the refresh, and issued_pool_tokens is not
\* tested
fetch_remove_liquidity_quote(p, pool_token_asset_in, slippage) ==
    LET op == "fetch_remove_liquidity_quote"
        calls == {"calculate_remove_liquidity_output_amounts"}
    IN  IF ~Truthy(p.exists)
        THEN <<p, Raise(op, <<>>, "BootstrapIsRequired")>>
        ELSE
          LET q == refresh(p)
              args == <<pool_token_asset_in, q.asset_1_reserves,
                        q.asset_2_reserves, q.issued_pool_tokens>>
              out == calculate_remove_liquidity_output_amounts(
                         args[1], args[2], args[3], args[4])
          IN  IF out = <<>>
              THEN <<q, Ret(op, <<>>, "ZeroDivisionError", "None", FALSE, calls,
                            args, FALSE)>>
              ELSE <<q, Quote(op, <<>>, "RemoveLiquidityQuote", slippage, calls,
                              args,
                              QuoteContents(<<>>,
                                            << <<q.asset_1, out[1]>>,
                                               <<q.asset_2, out[2]>> >>,
                                            pool_token_asset_in, <<>>, "None",
                                            <<>>))>>

\* fetch_single_asset_remove_liquidity_quote with the whole reserves as the
\* supplies of the internal swap
fetch_single_asset_remove_liquidity_quote_FullSupplies(p, pool_token_asset_in, output_asset, slippage) ==
    LET op == "fetch_single_asset_remove_liquidity_quote"
        assets == <<output_asset>>
        both == {"calculate_remove_liquidity_output_amounts",
                 "calculate_fixed_input_swap"}
    IN  IF ~Truthy(p.exists)
        THEN <<p, Raise(op, assets, "BootstrapIsRequired")>>
        ELSE
          LET q == refresh(p)
              args == <<pool_token_asset_in, q.asset_1_reserves,
                        q.asset_2_reserves, q.issued_pool_tokens>>
              out == calculate_remove_liquidity_output_amounts(
                         args[1], args[2], args[3], args[4])
              quote(asset_out, output_amount, asset_in, swap_input_amount,
                    input_supply, output_supply) ==
                  LET swap == calculate_fixed_input_swap(
                                  input_supply, output_supply, swap_input_amount,
                                  q.total_fee_share)
                  IN  IF swap = <<>>
                      THEN <<q, Ret(op, assets, "ZeroDivisionError", "None", FALSE,
                                    both, args, FALSE)>>
                      ELSE <<q, Quote(op, assets, "SingleAssetRemoveLiquidityQuote",
                                      slippage, both, args,
                                      QuoteContents(
                                          <<>>,
                                          << <<asset_out, output_amount + swap[1]>> >>,
                                          pool_token_asset_in, <<>>, "None",
                                          InternalSwapQuote(
                                              <<asset_in, swap_input_amount>>,
                                              <<asset_out, swap[1]>>,
                                              <<asset_in, swap[2]>>)))>>
          IN  IF out = <<>>
              THEN <<q, Ret(op, assets, "ZeroDivisionError", "None", FALSE,
                            {"calculate_remove_liquidity_output_amounts"}, args,
                            FALSE)>>
              ELSE IF output_asset = q.asset_1
              THEN quote(q.asset_1, out[1], q.asset_2, out[2],
                         q.asset_2_reserves, q.asset_1_reserves)
              ELSE IF output_asset = q.asset_2
              THEN quote(q.asset_2, out[2], q.asset_1, out[1],
                         q.asset_1_reserves, q.asset_2_reserves)
              ELSE <<q, Ret(op, assets, "AssertionError", "None", FALSE,
                            {"calculate_remove_liquidity_output_amounts"}, args,
                            FALSE)>>

\* Pool.fetch_single_asset_remove_liquidity_quote(pool_token_asset_in,
\* output_asset, slippage): output_asset is tested after the proportional
\* amounts are computed
fetch_single_asset_remove_liquidity_quote(p, pool_token_asset_in, output_asset, slippage) ==
    LET op == "fetch_single_asset_remove_liquidity_quote"
        assets == <<output_asset>>
        both == {"calculate_remove_liquidity_output_amounts",
                 "calculate_fixed_input_swap"}
    IN  IF ~Truthy(p.exists)
        THEN <<p, Raise(op, assets, "BootstrapIsRequired")>>
        ELSE
          LET q == refresh(p)
              args == <<pool_token_asset_in, q.asset_1_reserves,
                        q.asset_2_reserves, q.issued_pool_tokens>>
              out == calculate_remove_liquidity_output_amounts(
                         args[1], args[2], args[3], args[4])
              quote(asset_out, output_amount, asset_in, swap_input_amount,
                    input_supply, output_supply) ==
                  LET swap == calculate_fixed_input_swap(
                                  input_supply, output_supply, swap_input_amount,
                                  q.total_fee_share)
                  IN  IF swap = <<>>
                      THEN <<q, Ret(op, assets, "ZeroDivisionError", "None", FALSE,
                                    both, args, FALSE)>>
                      ELSE <<q, Quote(op, assets, "SingleAssetRemoveLiquidityQuote",
                                      slippage, both, args,
                                      QuoteContents(
                                          <<>>,
                                          << <<asset_out, output_amount + swap[1]>> >>,
                                          pool_token_asset_in, <<>>, "None",
                                          InternalSwapQuote(
                                              <<asset_in, swap_input_amount>>,
                                              <<asset_out, swap[1]>>,
                                              <<asset_in, swap[2]>>)))>>
          IN  IF out = <<>>
              THEN <<q, Ret(op, assets, "ZeroDivisionError", "None", FALSE,
                            {"calculate_remove_liquidity_output_amounts"}, args,
                            FALSE)>>
              ELSE IF output_asset = q.asset_1
              THEN quote(q.asset_1, out[1], q.asset_2, out[2],
                         q.asset_2_reserves - out[2], q.asset_1_reserves - out[1])
              ELSE IF output_asset = q.asset_2
              THEN quote(q.asset_2, out[2], q.asset_1, out[1],
                         q.asset_1_reserves - out[1], q.asset_2_reserves - out[2])
              ELSE <<q, Ret(op, assets, "AssertionError", "None", FALSE,
                            {"calculate_remove_liquidity_output_amounts"}, args,
                            FALSE)>>

\* fetch_fixed_input_swap_quote with the two supplies exchanged
fetch_fixed_input_swap_quote_SuppliesSwapped(p, asset_in, amount_in, slippage) ==
    LET op == "fetch_fixed_input_swap_quote"
        assets == <<asset_in>>
        calls == {"calculate_fixed_input_swap"}
        q == refresh(p)
        quote(asset_out, input_supply, output_supply) ==
            LET args == <<input_supply, output_supply, amount_in, q.total_fee_share>>
                swap == calculate_fixed_input_swap(args[1], args[2], args[3], args[4])
            IN  IF swap = <<>>
                THEN <<q, Ret(op, assets, "ZeroDivisionError", "None", FALSE, calls,
                              args, FALSE)>>
                ELSE <<q, Quote(op, assets, "SwapQuote", slippage, calls, args,
                                QuoteContents(<< <<asset_in, amount_in>> >>,
                                              << <<asset_out, swap[1]>> >>, None,
                                              <<asset_in, swap[2]>>, "fixed-input",
                                              <<>>))>>
    IN  IF ~Truthy(q.exists)
        THEN <<q, Raise(op, assets, "BootstrapIsRequired")>>
        ELSE IF Falsy(q.issued_pool_tokens)
        THEN <<q, Raise(op, assets, "PoolHasNoLiquidity")>>
        ELSE IF asset_in = q.asset_1
        THEN quote(q.asset_2, q.asset_2_reserves, q.asset_1_reserves)
        ELSE IF asset_in = q.asset_1
        THEN quote(q.asset_1, q.asset_2_reserves, q.asset_1_reserves)
        ELSE <<q, Raise(op, assets, "TypeError")>>

\* Pool.fetch_fixed_input_swap_quote(amount_in, slippage).  The second test
\* repeats the first (line 782), and the last branch is "raise False": a
\* TypeError.
fetch_fixed_input_swap_quote(p, asset_in, amount_in, slippage) ==
    LET op == "fetch_fixed_input_swap_quote"
        assets == <<asset_in>>
        calls == {"calculate_fixed_input_swap"}
        q == refresh(p)
        quote(asset_out, input_supply, output_supply) ==
            LET args == <<input_supply, output_supply, amount_in, q.total_fee_share>>
                swap == calculate_fixed_input_swap(args[1], args[2], args[3], args[4])
            IN  IF swap = <<>>
                THEN <<q, Ret(op, assets, "ZeroDivisionError", "None", FALSE, calls,
                              args, FALSE)>>
                ELSE <<q, Quote(op, assets, "SwapQuote", slippage, calls, args,
                                QuoteContents(<< <<asset_in, amount_in>> >>,
                                              << <<asset_out, swap[1]>> >>, None,
                                              <<asset_in, swap[2]>>, "fixed-input",
                                              <<>>))>>
    IN  IF ~Truthy(q.exists)
        THEN <<q, Raise(op, assets, "BootstrapIsRequired")>>
        ELSE IF Falsy(q.issued_pool_tokens)
        THEN <<q, Raise(op, assets, "PoolHasNoLiquidity")>>
        ELSE IF asset_in = q.asset_1
        THEN quote(q.asset_2, q.asset_1_reserves, q.asset_2_reserves)
        ELSE IF asset_in = q.asset_1
        THEN quote(q.asset_1, q.asset_2_reserves, q.asset_1_reserves)
        ELSE <<q, Raise(op, assets, "TypeError")>>

\* fetch_fixed_output_swap_quote with input_supply and output_supply taken
\* from the wrong reserves
fetch_fixed_output_swap_quote_SuppliesSwapped(p, asset_out, amount_out, slippage) ==
    LET op == "fetch_fixed_output_swap_quote"
        assets == <<asset_out>>
        calls == {"calculate_fixed_output_swap"}
        q == refresh(p)
        quote(asset_in, input_supply, output_supply) ==
            LET args == <<input_supply, output_supply, amount_out, q.total_fee_share>>
                swap == calculate_fixed_output_swap(args[1], args[2], args[3], args[4])
            IN  IF swap = <<>>
                THEN <<q, Ret(op, assets, "InsufficientLiquidity", "None", FALSE,
                              calls, args, FALSE)>>
                ELSE <<q, Quote(op, assets, "SwapQuote", slippage, calls, args,
                                QuoteContents(<< <<asset_in, swap[1]>> >>,
                                              << <<asset_out, amount_out>> >>, None,
                                              <<asset_in, swap[2]>>, "fixed-output",
                                              <<>>))>>
    IN  IF ~Truthy(q.exists)
        THEN <<q, Raise(op, assets, "BootstrapIsRequired")>>
        ELSE IF Falsy(q.issued_pool_tokens)
        THEN <<q, Raise(op, assets, "PoolHasNoLiquidity")>>
        ELSE IF asset_out = q.asset_1
        THEN quote(q.asset_2, q.asset_1_reserves, q.asset_2_reserves)
        ELSE IF asset_out = q.asset_2
        THEN quote(q.asset_1, q.asset_2_reserves, q.asset_1_reserves)
        ELSE <<q, Raise(op, assets, "AssertionError")>>

\* fetch_fixed_output_swap_quote passing no fee share to the formula
fetch_fixed_output_swap_quote_NoFee(p, asset_out, amount_out, slippage) ==
    LET op == "fetch_fixed_output_swap_quote"
        assets == <<asset_out>>
        calls == {"calculate_fixed_output_swap"}
        q == refresh(p)
        quote(asset_in, input_supply, output_supply) ==
            LET args == <<input_supply, output_supply, amount_out, 0>>
                swap == calculate_fixed_output_swap(args[1], args[2], args[3], args[4])
            IN  IF swap = <<>>
                THEN <<q, Ret(op, assets, "InsufficientLiquidity", "None", FALSE,
                              calls, args, FALSE)>>
                ELSE <<q, Quote(op, assets, "SwapQuote", slippage, calls, args,
                                QuoteContents(<< <<asset_in, swap[1]>> >>,
                                              << <<asset_out, amount_out>> >>, None,
                                              <<asset_in, swap[2]>>, "fixed-output",
                                              <<>>))>>
    IN  IF ~Truthy(q.exists)
        THEN <<q, Raise(op, assets, "BootstrapIsRequired")>>
        ELSE IF Falsy(q.issued_pool_tokens)
        THEN <<q, Raise(op, assets, "PoolHasNoLiquidity")>>
        ELSE IF asset_out = q.asset_1
        THEN quote(q.asset_2, q.asset_2_reserves, q.asset_1_reserves)
        ELSE IF asset_out = q.asset_2
        THEN quote(q.asset_1, q.asset_1_reserves, q.asset_2_reserves)
        ELSE <<q, Raise(op, assets, "AssertionError")>>

\* Pool.fetch_fixed_output_swap_quote(amount_out, slippage)
fetch_fixed_output_swap_quote(p, asset_out, amount_out, slippage) ==
    LET op == "fetch_fixed_output_swap_quote"
        assets == <<asset_out>>
        calls == {"calculate_fixed_output_swap"}
        q == refresh(p)
        quote(asset_in, input_supply, output_supply) ==
            LET args == <<input_supply, output_supply, amount_out, q.total_fee_share>>
                swap == calculate_fixed_output_swap(args[1], args[2], args[3], args[4])
            IN  IF swap = <<>>
                THEN <<q, Ret(op, assets, "InsufficientLiquidity", "None", FALSE,
                              calls, args, FALSE)>>
                ELSE <<q, Quote(op, assets, "SwapQuote", slippage, calls, args,
                                QuoteContents(<< <<asset_in, swap[1]>> >>,
                                              << <<asset_out, amount_out>> >>, None,
                                              <<asset_in, swap[2]>>, "fixed-output",
                                              <<>>))>>
    IN  IF ~Truthy(q.exists)
        THEN <<q, Raise(op, assets, "BootstrapIsRequired")>>
        ELSE IF Falsy(q.issued_pool_tokens)
        THEN <<q, Raise(op, assets, "PoolHasNoLiquidity")>>
        ELSE IF asset_out = q.asset_1
        THEN quote(q.asset_2, q.asset_2_reserves, q.asset_1_reserves)
        ELSE IF asset_out = q.asset_2
        THEN quote(q.asset_1, q.asset_1_reserves, q.asset_2_reserves)
        ELSE <<q, Raise(op, assets, "AssertionError")>>

-----------------------------------------------------------------------------
(* The calls as actions *)

Call(result) ==
    /\ pool.constructed
    /\ pool' = result[1]
    /\ ret' = result[2]
    /\ UNCHANGED <<ledger, thr>>

PrepareBootstrapTransactions == Call(prepare_bootstrap_transactions(pool))

FetchFlexibleAddLiquidityQuote ==
    \E asset_a \in AssetIds, asset_b \in AssetIds, a \in Amounts, b \in Amounts :
        Call(fetch_flexible_add_liquidity_quote(pool, asset_a, a, asset_b, b,
                                                DefaultSlippage))

FetchSingleAssetAddLiquidityQuote ==
    \E asset_a \in AssetIds, a \in Amounts :
        Call(fetch_single_asset_add_liquidity_quote(pool, asset_a, a, DefaultSlippage))

FetchInitialAddLiquidityQuote ==
    \E asset_a \in AssetIds, asset_b \in AssetIds, a \in Amounts, b \in Amounts :
        Call(fetch_initial_add_liquidity_quote(pool, asset_a, a, asset_b, b))

FetchRemoveLiquidityQuote ==
    \E t \in Amounts : Call(fetch_remove_liquidity_quote(pool, t, DefaultSlippage))

FetchSingleAssetRemoveLiquidityQuote ==
    \E t \in Amounts, output_asset \in AssetIds :
        Call(fetch_single_asset_remove_liquidity_quote(pool, t, output_asset,
                                                       DefaultSlippage))

FetchFixedInputSwapQuote ==
    \E asset_in \in AssetIds, amount_in \in Amounts :
        Call(fetch_fixed_input_swap_quote(pool, asset_in, amount_in, DefaultSlippage))

FetchFixedOutputSwapQuote ==
    \E asset_out \in AssetIds, amount_out \in Amounts :
        Call(fetch_fixed_output_swap_quote(pool, asset_out, amount_out, DefaultSlippage))

\* The bounds of a quote (tinyman/v2/quotes.py), spec.md 4.3: an amount the
\* participant receives is protected by floor(raw * (1 - s)), an amount the
\* participant pays by ceil(raw * (1 + s)).
ReceiveBound(raw, slippage) ==
    FloorDiv(raw * (SlippageScale - slippage), SlippageScale)

PayBound(raw, slippage) ==
    CeilDiv(raw * (SlippageScale + slippage), SlippageScale)

\* quote.min_pool_token_asset_amount_with_slippage
min_pool_token_asset_amount_with_slippage(r) ==
    ReceiveBound(r.contents.pool_token_asset_amount, r.tolerance)

\* quote.amounts_out_with_slippage, and quote.amount_out_with_slippage of the
\* single-asset remove quote and of the swap quote
amounts_out_with_slippage(r) ==
    [i \in 1..Len(r.contents.amounts_out) |->
        <<r.contents.amounts_out[i][1],
          ReceiveBound(r.contents.amounts_out[i][2], r.tolerance)>>]

\* quote.amount_in_with_slippage of the swap quote
amount_in_with_slippage(r) ==
    [i \in 1..Len(r.contents.amounts_in) |->
        <<r.contents.amounts_in[i][1],
          PayBound(r.contents.amounts_in[i][2], r.tolerance)>>]

\* what a prepare_*_from_quote method passes on: the amounts the participant
\* pays and the least amounts the participant is to receive
Handed(pay, receive) == [pay |-> pay, receive |-> receive]

\* Pool.prepare_add_liquidity_transactions_from_quote(quote)
prepare_add_liquidity_transactions_from_quote(r) ==
    IF r.quote = "InitialAddLiquidityQuote"
    THEN Handed(r.contents.amounts_in, <<>>)
    ELSE Handed(r.contents.amounts_in,
                << <<PoolTokenAssetId, min_pool_token_asset_amount_with_slippage(r)>> >>)

\* prepare_remove_liquidity_transactions_from_quote passing the amounts of
\* the quote as they are
prepare_remove_liquidity_transactions_from_quote_Raw(r) ==
    Handed(<< <<PoolTokenAssetId, r.contents.pool_token_asset_amount>> >>,
           r.contents.amounts_out)

\* Pool.prepare_remove_liquidity_transactions_from_quote(quote)
prepare_remove_liquidity_transactions_from_quote(r) ==
    Handed(<< <<PoolTokenAssetId, r.contents.pool_token_asset_amount>> >>,
           amounts_out_with_slippage(r))

\* Pool.prepare_swap_transactions_from_quote(quote)
prepare_swap_transactions_from_quote(r) ==
    Handed(amount_in_with_slippage(r), amounts_out_with_slippage(r))

AddLiquidityQuotes ==
    {"FlexibleAddLiquidityQuote", "SingleAssetAddLiquidityQuote",
     "InitialAddLiquidityQuote"}

RemoveLiquidityQuotes == {"RemoveLiquidityQuote", "SingleAssetRemoveLiquidityQuote"}

\* prepare_add_liquidity_transactions_from_quote,
\* prepare_remove_liquidity_transactions_from_quote and
\* prepare_swap_transactions_from_quote, on the quote the last call returned:
\* they read the object and the quote and assign nothing
PrepareTransactionsFromQuote ==
    /\ pool.constructed
    /\ ret.quote # "None"
    /\ ret.contents # NoQuote
    /\ ret' = [ret EXCEPT
                 !.op = "prepare_transactions_from_quote",
                 !.txn = TRUE,
                 !.handed =
                     IF ret.quote \in AddLiquidityQuotes
                     THEN prepare_add_liquidity_transactions_from_quote(ret)
                     ELSE IF ret.quote \in RemoveLiquidityQuotes
                     THEN prepare_remove_liquidity_transactions_from_quote(ret)
                     ELSE prepare_swap_transactions_from_quote(ret)]
    /\ UNCHANGED <<ledger, pool, thr>>

-----------------------------------------------------------------------------

Init ==
    /\ ledger = LedgerInit
    /\ pool = PoolInit
    /\ ret = Done("none")
    /\ thr = ThrIdle

Next ==
    \/ ChainBootstrap
    \/ ChainAddLiquidity
    \/ Construct
    \/ FromAccountInfo
    \/ Refresh
    \/ UpdateFromInfo
    \/ PrepareBootstrapTransactions
    \/ FetchFlexibleAddLiquidityQuote
    \/ FetchSingleAssetAddLiquidityQuote
    \/ FetchInitialAddLiquidityQuote
    \/ FetchRemoveLiquidityQuote
    \/ FetchSingleAssetRemoveLiquidityQuote
    \/ FetchFixedInputSwapQuote
    \/ FetchFixedOutputSwapQuote
    \/ PrepareTransactionsFromQuote

Spec == Init /\ [][Next]_vars

-----------------------------------------------------------------------------
(* Two threads on one Pool.  Python runs one bytecode at a time and may      *)
(* switch threads between any two, so every attribute assignment of          *)
(* update_from_info and every attribute read of a call's argument list is    *)
(* a step of its own.                                                        *)

\* the i-th assignment of Pool.update_from_info, lines 197-208
AssignField(p, info, i) ==
    CASE i = 1 -> [p EXCEPT !.exists =
                       IF info.pool_token_asset_id # None THEN "True" ELSE @]
      [] i = 2 -> [p EXCEPT !.pool_token_asset = info.pool_token_asset_id]
      [] i = 3 -> [p EXCEPT !.asset_1_reserves = info.asset_1_reserves]
      [] i = 4 -> [p EXCEPT !.asset_2_reserves = info.asset_2_reserves]
      [] i = 5 -> [p EXCEPT !.issued_pool_tokens = info.issued_pool_tokens]
      [] i = 6 -> [p EXCEPT !.total_fee_share = info.total_fee_share]
      [] i = 7 -> [p EXCEPT !.protocol_fee_ratio = info.protocol_fee_ratio]
      [] i = 8 -> [p EXCEPT !.last_refreshed_round = info.round]

NumAssignments == 8

\* the i-th keyword argument of the calculate_subsequent_add_liquidity call
\* in fetch_flexible_add_liquidity_quote, lines 336-339
ReadArgument(p, i) ==
    CASE i = 1 -> p.asset_1_reserves
      [] i = 2 -> p.asset_2_reserves
      [] i = 3 -> p.issued_pool_tokens
      [] i = 4 -> p.total_fee_share

NumArguments == 4

\* refreshing thread, pool.refresh(): get_pool_info returns (lines 185-193)
WriterRead ==
    /\ pool.constructed
    /\ thr.wpc = 0
    /\ get_pool_info # <<>>
    /\ thr' = [thr EXCEPT !.wpc = 1, !.winfo = get_pool_info]
    /\ UNCHANGED <<ledger, pool, ret>>

\* refreshing thread: the next assignment of update_from_info
WriterAssign ==
    /\ thr.wpc \in 1..NumAssignments
    /\ pool' = AssignField(pool, thr.winfo[1], thr.wpc)
    /\ thr' = IF thr.wpc = NumAssignments
              THEN [thr EXCEPT !.wpc = 0, !.winfo = <<>>]
              ELSE [thr EXCEPT !.wpc = @ + 1]
    /\ UNCHANGED <<ledger, ret>>

\* quoting thread, pool.fetch_flexible_add_liquidity_quote with one amount of
\* each pool asset: lines 313-326 (the refresh of the call and the
\* precondition tests), run without the other thread in between
ReaderBegin ==
    /\ pool.constructed
    /\ thr.rpc = 0
    /\ LET op == "fetch_flexible_add_liquidity_quote"
           assets == <<pool.asset_1, pool.asset_2>>
           q == refresh(pool)
       IN  /\ pool' = q
           /\ IF ~Truthy(q.exists)
              THEN ret' = Raise(op, assets, "BootstrapIsRequired") /\ thr' = thr
              ELSE IF Falsy(q.issued_pool_tokens)
              THEN ret' = Raise(op, assets, "PoolHasNoLiquidity") /\ thr' = thr
              ELSE ret' = ret /\ thr' = [thr EXCEPT !.rpc = 1, !.rargs = <<>>]
    /\ UNCHANGED ledger

\* quoting thread: the next argument of the formula call is evaluated
ReaderRead ==
    /\ thr.rpc \in 1..NumArguments
    /\ thr' = [thr EXCEPT !.rpc = @ + 1,
                          !.rargs = Append(@, ReadArgument(pool, thr.rpc))]
    /\ UNCHANGED <<ledger, pool, ret>>

\* quoting thread: the formula is called and the quote returned
ReaderCall ==
    /\ thr.rpc = NumArguments + 1
    /\ \E a \in Amounts, b \in Amounts :
          ret' = Ret("fetch_flexible_add_liquidity_quote",
                     <<pool.asset_1, pool.asset_2>>, "none",
                     "FlexibleAddLiquidityQuote", TRUE,
                     {"calculate_subsequent_add_liquidity"},
                     thr.rargs \o <<a, b>>, FALSE)
    /\ thr' = [thr EXCEPT !.rpc = 0, !.rargs = <<>>]
    /\ UNCHANGED <<ledger, pool>>

NextThreads ==
    \/ ChainBootstrap
    \/ ChainAddLiquidity
    \/ Construct
    \/ WriterRead
    \/ WriterAssign
    \/ ReaderBegin
    \/ ReaderRead
    \/ ReaderCall

SpecThreads == Init /\ [][NextThreads]_vars

-----------------------------------------------------------------------------
(* Quotes on a refreshed object.  The pool account is one of a set of        *)
(* snapshots and the Pool has been constructed with fetch=True; the calls    *)
(* take amounts and slippages from small sets.                               *)

MaxReserve == 3
MaxQuoteAmount == 3

\* the scenario of spec.md 8 (reserves 1,000,000 and 2,000,000, fee share 3),
\* in thousands
ScenarioReserve == 1000

\* a fee share at which amounts of 2 and more pay a fee, and an amount whose
\* fee at that share has a protocol cut
HighFeeShare == 500
LargeAmount == 12

Reserves == 1..MaxReserve
QuoteAmounts == (1..MaxQuoteAmount) \cup {LargeAmount}
Slippages == {0, DefaultSlippage}
FeeShares == {TotalFeeShare, HighFeeShare}

Account(asset_1_reserves, asset_2_reserves, issued_pool_tokens, total_fee_share) ==
    [exists |-> TRUE, asset_1_reserves |-> asset_1_reserves,
     asset_2_reserves |-> asset_2_reserves,
     issued_pool_tokens |-> issued_pool_tokens,
     total_fee_share |-> total_fee_share, protocol_fee_ratio |-> ProtocolFeeRatio]

\* a bootstrapped pool without liquidity
EmptyAccounts == {Account(0, 0, 0, f) : f \in FeeShares}

ScenarioAccount ==
    Account(ScenarioReserve, 2 * ScenarioReserve, ScenarioReserve, TotalFeeShare)

\* pools with liquidity: the pool tokens issued are at most the integer
\* square root of the product of the reserves, as minting leaves them
ActiveAccounts ==
    {Account(r1, r2, t, f) : r1 \in Reserves, r2 \in Reserves,
                             t \in Reserves, f \in FeeShares}

\* a pool whose fees are not rounded away
LargeAccount == Account(LargeAmount, 2 * LargeAmount, LargeAmount, HighFeeShare)

Snapshots ==
    EmptyAccounts \cup {ScenarioAccount, LargeAccount}
    \cup {a \in ActiveAccounts :
             a.issued_pool_tokens <= ISqrt(a.asset_1_reserves * a.asset_2_reserves)}

\* Pool(client, asset_a, asset_b) with fetch=True on the pool account
InitOn(accounts) ==
    /\ ledger \in {<<a>> : a \in accounts}
    /\ pool = refresh([PoolInit EXCEPT !.constructed = TRUE,
                                       !.asset_1 = OrderAssets(0, 1)[1],
                                       !.asset_2 = OrderAssets(0, 1)[2]])
    /\ ret = Constructed("__init__", <<0, 1>>, TRUE, <<>>)
    /\ thr = ThrIdle

InitQuotes == InitOn(Snapshots)

PoolAssets == {pool.asset_1, pool.asset_2}

QuoteFlexibleAddLiquidity ==
    \E a \in QuoteAmounts, b \in QuoteAmounts, s \in Slippages :
        Call(fetch_flexible_add_liquidity_quote(pool, pool.asset_1, a,
                                                pool.asset_2, b, s))

QuoteSingleAssetAddLiquidity ==
    \E asset_a \in PoolAssets, a \in QuoteAmounts, s \in Slippages :
        Call(fetch_single_asset_add_liquidity_quote(pool, asset_a, a, s))

QuoteInitialAddLiquidity ==
    \E a \in QuoteAmounts, b \in QuoteAmounts :
        Call(fetch_initial_add_liquidity_quote(pool, pool.asset_1, a, pool.asset_2, b))

\* the amounts of pool tokens a participant burns: small ones, and all that
\* were issued
BurnAmounts == (1..MaxQuoteAmount) \cup {chain.issued_pool_tokens}

QuoteRemoveLiquidity ==
    \E t \in BurnAmounts, s \in Slippages :
        Call(fetch_remove_liquidity_quote(pool, t, s))

QuoteSingleAssetRemoveLiquidity ==
    \E t \in BurnAmounts, output_asset \in PoolAssets, s \in Slippages :
        Call(fetch_single_asset_remove_liquidity_quote(pool, t, output_asset, s))

QuoteFixedInputSwap ==
    \E asset_in \in PoolAssets, amount_in \in QuoteAmounts, s \in Slippages :
        Call(fetch_fixed_input_swap_quote(pool, asset_in, amount_in, s))

QuoteFixedOutputSwap ==
    \E asset_out \in PoolAssets, amount_out \in QuoteAmounts, s \in Slippages :
        Call(fetch_fixed_output_swap_quote(pool, asset_out, amount_out, s))

NextQuotes ==
    \/ QuoteFlexibleAddLiquidity
    \/ QuoteSingleAssetAddLiquidity
    \/ QuoteInitialAddLiquidity
    \/ QuoteRemoveLiquidity
    \/ QuoteSingleAssetRemoveLiquidity
    \/ QuoteFixedInputSwap
    \/ QuoteFixedOutputSwap
    \/ PrepareTransactionsFromQuote

SpecQuotes == InitQuotes /\ [][NextQuotes]_vars

-----------------------------------------------------------------------------
(* Settlement.  The participant submits the transactions prepared from a     *)
(* quote made on the current state of the pool account, and the ledger       *)
(* applies them (spec.md 4.2, 4.4): a swap adds the input less the           *)
(* protocol's cut of the fee to the input reserve and takes the output from  *)
(* the output reserve; an initial add sets the reserves to the deposits and  *)
(* issues the pool tokens minted.                                            *)

\* the transactions in hand were prepared from a quote of the given class,
\* made on the current state of the pool account
Submitted(quote) ==
    /\ round < MaxRound
    /\ ret.txn
    /\ ret.quote = quote
    /\ pool.last_refreshed_round = round

ChainSwap ==
    /\ Submitted("SwapQuote")
    /\ LET asset_in == ret.contents.amounts_in[1][1]
           amount_in == ret.contents.amounts_in[1][2]
           amount_out == ret.contents.amounts_out[1][2]
           kept == amount_in
                     - calculate_protocol_fee_amount(ret.contents.swap_fees[2],
                                                     chain.protocol_fee_ratio)
       IN  ledger' = Append(ledger,
               IF asset_in = pool.asset_1
               THEN [chain EXCEPT !.asset_1_reserves = @ + kept,
                                  !.asset_2_reserves = @ - amount_out]
               ELSE [chain EXCEPT !.asset_2_reserves = @ + kept,
                                  !.asset_1_reserves = @ - amount_out])
    /\ UNCHANGED <<pool, ret, thr>>

ChainInitialAddLiquidity ==
    /\ Submitted("InitialAddLiquidityQuote")
    /\ ret.contents.pool_token_asset_amount > 0
    /\ ledger' = Append(ledger,
           [chain EXCEPT !.asset_1_reserves = ret.contents.amounts_in[1][2],
                         !.asset_2_reserves = ret.contents.amounts_in[2][2],
                         !.issued_pool_tokens = ret.contents.pool_token_asset_amount])
    /\ UNCHANGED <<pool, ret, thr>>

\* the pool account before its first liquidity, or with equal reserves
SettleAccounts ==
    EmptyAccounts
    \cup {Account(MaxReserve, MaxReserve, MaxReserve, f) : f \in FeeShares}

InitSettle == InitOn(SettleAccounts)

\* the amounts of the participant who submits: a small one, the largest of
\* the small ones, and one whose fee has a protocol cut
SettleAmounts == {1, MaxQuoteAmount, LargeAmount}

TradeFixedInputSwap ==
    \E asset_in \in PoolAssets, amount_in \in SettleAmounts :
        Call(fetch_fixed_input_swap_quote(pool, asset_in, amount_in, DefaultSlippage))

TradeFixedOutputSwap ==
    \E asset_out \in PoolAssets, amount_out \in SettleAmounts :
        Call(fetch_fixed_output_swap_quote(pool, asset_out, amount_out, DefaultSlippage))

DepositInitialLiquidity ==
    \E a \in SettleAmounts, b \in SettleAmounts :
        Call(fetch_initial_add_liquidity_quote(pool, pool.asset_1, a, pool.asset_2, b))

WithdrawLiquidity ==
    \E t \in {1, chain.issued_pool_tokens} :
        Call(fetch_remove_liquidity_quote(pool, t, DefaultSlippage))

NextSettle ==
    \/ DepositInitialLiquidity
    \/ WithdrawLiquidity
    \/ TradeFixedInputSwap
    \/ TradeFixedOutputSwap
    \/ PrepareTransactionsFromQuote
    \/ ChainSwap
    \/ ChainInitialAddLiquidity

SpecSettle == InitSettle /\ [][NextSettle]_vars

-----------------------------------------------------------------------------
(* Vocabulary of the properties *)

\* a step that is a call on the Pool: the ledger's own steps are the only
\* ones that change ledger, and every call records its method in ret.op
CallStep(ops) == ledger' = ledger /\ ret'.op \in ops

PreconditionErrors ==
    {"BootstrapIsRequired", "AlreadyBootstrapped", "PoolHasNoLiquidity",
     "PoolAlreadyHasLiquidity"}

AddAndSwapQuotes ==
    {"fetch_flexible_add_liquidity_quote", "fetch_single_asset_add_liquidity_quote",
     "fetch_fixed_input_swap_quote", "fetch_fixed_output_swap_quote"}

RemoveQuotes ==
    {"fetch_remove_liquidity_quote", "fetch_single_asset_remove_liquidity_quote"}

QuoteOps ==
    AddAndSwapQuotes \cup RemoveQuotes \cup {"fetch_initial_add_liquidity_quote"}

\* the snapshot fields of the object, and the same fields of the pool account
\* as it was at round r
PoolSnapshot(p) ==
    <<p.exists, p.asset_1_reserves, p.asset_2_reserves, p.issued_pool_tokens,
      p.total_fee_share, p.protocol_fee_ratio, p.last_refreshed_round>>

LedgerSnapshot(r) ==
    <<"True", ledger[r + 1].asset_1_reserves, ledger[r + 1].asset_2_reserves,
      ledger[r + 1].issued_pool_tokens, ledger[r + 1].total_fee_share,
      ledger[r + 1].protocol_fee_ratio, r>>

\* the asset arguments of a call are assets of the pool (both of them, for
\* the calls that take two amounts)
InPoolAssets(assets) ==
    IF Len(assets) = 2
    THEN {assets[1], assets[2]} = {pool.asset_1, pool.asset_2}
    ELSE \A i \in 1..Len(assets) : assets[i] \in {pool.asset_1, pool.asset_2}

-----------------------------------------------------------------------------
(* C1 *)

\* C1: for two assets with distinct ids given in either order the constructed
\* pool has asset_1.id > asset_2.id, asset_1 and asset_2 being the two assets
\* given (so Pool(a, b) and Pool(b, a) get the same pair), and no later call
\* changes asset_1 or asset_2.
C1_CanonicalOrder ==
    /\ [](pool.constructed =>
            /\ pool.asset_1 > pool.asset_2
            /\ ret.op = "__init__" =>
                 {pool.asset_1, pool.asset_2} = {ret.assets[1], ret.assets[2]})
    /\ [][pool.constructed =>
            pool'.asset_1 = pool.asset_1 /\ pool'.asset_2 = pool.asset_2]_vars

\* the constructor was given the smaller id first
C1_Witness ==
    /\ pool.constructed
    /\ ret.op = "__init__"
    /\ ret.assets[1] < ret.assets[2]
    /\ pool.asset_1 = ret.assets[2]

-----------------------------------------------------------------------------
(* C2 *)

\* C2: a flexible add, single-asset add, fixed-input swap or fixed-output
\* swap quote asked with amounts in the pool's assets fails with
\* BootstrapIsRequired when the source has no pool, fails with
\* PoolHasNoLiquidity when the pool exists with issued_pool_tokens = 0, calls
\* no formula in either case, and returns a quote only when the pool read by
\* its refresh is Active.
C2_AddAndSwapRequireActive ==
    [][(CallStep(AddAndSwapQuotes) /\ InPoolAssets(ret'.assets)) =>
          /\ ~chain.exists =>
               ret'.err = "BootstrapIsRequired" /\ ret'.calls = {}
               /\ ret'.quote = "None"
          /\ (chain.exists /\ chain.issued_pool_tokens = 0) =>
               ret'.err = "PoolHasNoLiquidity" /\ ret'.calls = {}
               /\ ret'.quote = "None"
          /\ ret'.quote # "None" =>
               /\ chain.exists /\ chain.issued_pool_tokens > 0
               /\ Truthy(pool'.exists) /\ pool'.issued_pool_tokens > 0
               /\ pool'.last_refreshed_round = round]_vars

\* a swap quote was refused on a bootstrapped pool without liquidity
C2_Witness ==
    /\ ret.op = "fetch_fixed_output_swap_quote"
    /\ InPoolAssets(ret.assets)
    /\ ret.err = "PoolHasNoLiquidity"
    /\ chain.exists /\ chain.issued_pool_tokens = 0
    /\ pool.last_refreshed_round = round

-----------------------------------------------------------------------------
(* C3 *)

\* C3: when the pool read by its refresh exists with issued_pool_tokens = 0,
\* a remove or single-asset remove quote fails with PoolHasNoLiquidity, with
\* calculate_remove_liquidity_output_amounts not called and no quote returned.
C3_RemoveRequiresLiquidity ==
    (ret.op \in RemoveQuotes /\ Truthy(pool.exists) /\ pool.issued_pool_tokens = 0)
        => (ret.err = "PoolHasNoLiquidity" /\ ret.calls = {} /\ ret.quote = "None")

-----------------------------------------------------------------------------
(* C4 *)

\* C4: every quote operation decides its existence and liquidity
\* preconditions on the snapshot its own refresh has just read: it fails with
\* BootstrapIsRequired only if the source has no pool at the time of the call
\* (a pool bootstrapped since the previous refresh is not rejected), and with
\* PoolHasNoLiquidity / PoolAlreadyHasLiquidity only if the source's
\* issued_pool_tokens is 0 / positive.
C4_PreconditionsOnRefreshedSnapshot ==
    [][CallStep(QuoteOps) =>
          /\ ret'.err = "BootstrapIsRequired" => ~chain.exists
          /\ ret'.err = "PoolHasNoLiquidity" =>
               chain.exists /\ chain.issued_pool_tokens = 0
          /\ ret'.err = "PoolAlreadyHasLiquidity" =>
               chain.exists /\ chain.issued_pool_tokens > 0]_vars

-----------------------------------------------------------------------------
(* C5 *)

\* C5 as stated: a call that fails with a precondition error leaves every
\* snapshot field (exists, reserves, issued_pool_tokens, fee parameters,
\* last_refreshed_round) as it was before the call.
C5_FailureLeavesSnapshot ==
    [][(ledger' = ledger /\ ret'.err \in PreconditionErrors) =>
          PoolSnapshot(pool') = PoolSnapshot(pool)]_vars

\* C5 amended: a call that fails with a precondition error changes the object
\* at most by its own refresh: the object is as before the call, or its
\* snapshot fields are, all of them, those of the source's pool at the round
\* of the call and nothing else has changed.
C5_FailureOnlyRefreshes ==
    [][(ledger' = ledger /\ ret'.err \in PreconditionErrors) =>
          \/ pool' = pool
          \/ /\ chain.exists
             /\ PoolSnapshot(pool') = LedgerSnapshot(round)
             /\ pool'.pool_token_asset = PoolTokenAssetId
             /\ pool'.asset_1 = pool.asset_1 /\ pool'.asset_2 = pool.asset_2
             /\ pool'.constructed = pool.constructed]_vars

\* a bootstrap was refused after the refresh of the call brought the object
\* to a round later than the pool's bootstrap
C5_Witness ==
    /\ ret.err = "AlreadyBootstrapped"
    /\ pool.last_refreshed_round = round
    /\ ledger[round].exists

-----------------------------------------------------------------------------
(* C6 *)

\* C6: the asset_1_reserves, asset_2_reserves, issued_pool_tokens and
\* total_fee_share passed to the formula call of a quote are those of the
\* pool account at one round, also when another thread refreshes the same
\* Pool meanwhile.
C6_ArgumentsOfOneSnapshot ==
    (ret.op = "fetch_flexible_add_liquidity_quote" /\ ret.quote # "None") =>
        \E r \in 0..round :
            /\ ledger[r + 1].exists
            /\ SubSeq(ret.args, 1, 4) =
                 <<ledger[r + 1].asset_1_reserves, ledger[r + 1].asset_2_reserves,
                   ledger[r + 1].issued_pool_tokens, ledger[r + 1].total_fee_share>>

-----------------------------------------------------------------------------
(* C7 *)

\* the snapshot fields of the object are all unset, as the constructor
\* leaves them, or are those of the pool account at the round
\* last_refreshed_round
SnapshotOfOneRound ==
    \/ PoolSnapshot(pool) = PoolSnapshot(PoolInit)
    \/ /\ pool.last_refreshed_round \in 0..round
       /\ ledger[pool.last_refreshed_round + 1].exists
       /\ PoolSnapshot(pool) = LedgerSnapshot(pool.last_refreshed_round)

RefreshOps == {"refresh", "refresh(info)", "update_from_info"}

\* C7 as stated: over refresh and update_from_info calls,
\* last_refreshed_round never decreases and the snapshot fields are those of
\* the one snapshot of round last_refreshed_round.
C7_RoundNeverDecreases ==
    [][CallStep(RefreshOps) =>
          /\ pool'.last_refreshed_round >= pool.last_refreshed_round
          /\ SnapshotOfOneRound']_vars

\* C7 amended: after every call the snapshot fields are those of the one
\* snapshot of round last_refreshed_round, and last_refreshed_round never
\* decreases over the calls that read the source themselves (refresh() and
\* the refresh inside the quote and bootstrap calls); update_from_info(info)
\* and refresh(info) install the info given, whatever its round.
C7_WholeSnapshotAndRefreshMonotone ==
    /\ []SnapshotOfOneRound
    /\ [][CallStep({"refresh", "prepare_bootstrap_transactions"} \cup QuoteOps) =>
            pool'.last_refreshed_round >= pool.last_refreshed_round]_vars

\* a refresh replaced an older snapshot by the one of a pool with liquidity
C7_Witness ==
    /\ ret.op = "refresh"
    /\ pool.last_refreshed_round = round
    /\ pool.issued_pool_tokens > 0
    /\ ledger[round].exists

-----------------------------------------------------------------------------
(* C8 *)

AssetOps ==
    {"fetch_flexible_add_liquidity_quote", "fetch_initial_add_liquidity_quote",
     "fetch_single_asset_add_liquidity_quote",
     "fetch_single_asset_remove_liquidity_quote",
     "fetch_fixed_input_swap_quote", "fetch_fixed_output_swap_quote"}

\* C8: a quote operation given an asset that is not one of the pool's two
\* fails with the asset-mismatch failure (the assertion; the TypeError of
\* "raise False" in the fixed-input swap), which is no precondition failure,
\* with no formula function called and no quote returned.
C8_AssetMismatchBeforeFormula ==
    (ret.op \in AssetOps /\ ~InPoolAssets(ret.assets)) =>
        /\ ret.err \in {"AssertionError", "TypeError"}
        /\ ret.calls = {}
        /\ ret.quote = "None"

-----------------------------------------------------------------------------
(* C9 *)

\* C9: an initial add quote asked with amounts in the pool's two assets
\* fails with BootstrapIsRequired when the source has no pool, fails with
\* PoolAlreadyHasLiquidity when issued_pool_tokens > 0, calls
\* calculate_initial_add_liquidity in neither case, and returns a quote, one
\* without slippage, only on a pool that exists with issued_pool_tokens = 0.
C9_InitialAddOnlyOnEmptyPool ==
    [][(CallStep({"fetch_initial_add_liquidity_quote"})
        /\ InPoolAssets(ret'.assets)) =>
          /\ ~chain.exists =>
               ret'.err = "BootstrapIsRequired" /\ ret'.calls = {}
               /\ ret'.quote = "None"
          /\ (chain.exists /\ chain.issued_pool_tokens > 0) =>
               ret'.err = "PoolAlreadyHasLiquidity" /\ ret'.calls = {}
               /\ ret'.quote = "None"
          /\ ret'.quote # "None" =>
               /\ chain.exists /\ chain.issued_pool_tokens = 0
               /\ ret'.quote = "InitialAddLiquidityQuote"
               /\ ~ret'.slippage
               /\ ret'.calls = {"calculate_initial_add_liquidity"}]_vars

\* an initial add quote was returned on a bootstrapped pool without liquidity
C9_Witness ==
    /\ ret.op = "fetch_initial_add_liquidity_quote"
    /\ ret.quote = "InitialAddLiquidityQuote"
    /\ chain.exists /\ chain.issued_pool_tokens = 0
    /\ pool.last_refreshed_round = round

-----------------------------------------------------------------------------
(* C10 *)

\* C10: prepare_bootstrap_transactions refreshes the snapshot; if the source
\* has the pool it fails with AlreadyBootstrapped and prepares no transaction
\* group; a group is prepared only when the source has no pool.
C10_BootstrapOnlyUnbootstrapped ==
    [][CallStep({"prepare_bootstrap_transactions"}) =>
          /\ chain.exists =>
               /\ ret'.err = "AlreadyBootstrapped" /\ ~ret'.txn
               /\ pool'.last_refreshed_round = round
          /\ ret'.txn =>
               ~chain.exists /\ ~Truthy(pool'.exists) /\ ret'.err = "none"]_vars

\* the pool was bootstrapped in the round of the call, and the refresh of
\* the call found it
C10_Witness ==
    /\ ret.op = "prepare_bootstrap_transactions"
    /\ ret.err = "AlreadyBootstrapped"
    /\ pool.last_refreshed_round = round
    /\ round > 0 /\ ~ledger[round].exists


-----------------------------------------------------------------------------
(* C16 *)

\* the reserve of the pool's asset as the object holds it
ReserveOf(p, asset) ==
    IF asset = p.asset_1 THEN p.asset_1_reserves ELSE p.asset_2_reserves

OtherAsset(p, asset) == IF asset = p.asset_1 THEN p.asset_2 ELSE p.asset_1

\* C16: on an Active pool fetch_fixed_input_swap_quote returns a swap quote
\* for an input in either of the pool's two assets: the output is in the other
\* asset, input_supply is the reserve of the input asset and output_supply
\* the reserve of the output asset.
C16_FixedInputEitherAsset ==
    (/\ ret.op = "fetch_fixed_input_swap_quote"
     /\ ret.assets[1] \in {pool.asset_1, pool.asset_2}
     /\ pool.exists = "True"
     /\ pool.issued_pool_tokens > 0)
    => /\ ret.quote = "SwapQuote"
       /\ ret.contents.amounts_out[1][1] = OtherAsset(pool, ret.assets[1])
       /\ ret.args[1] = ReserveOf(pool, ret.assets[1])
       /\ ret.args[2] = ReserveOf(pool, OtherAsset(pool, ret.assets[1]))

-----------------------------------------------------------------------------
(* C19 *)

\* the snapshot an info dict holds
InfoSnapshot(info) ==
    <<"True", info.asset_1_reserves, info.asset_2_reserves,
      info.issued_pool_tokens, info.total_fee_share, info.protocol_fee_ratio,
      info.round>>

\* C19: a Pool built by from_account_info, or by the constructor with an info
\* argument, holds exactly the snapshot of the supplied info, and the
\* construction makes no read of the pool account of its own.
C19_HoldsSuppliedSnapshot ==
    (/\ ret.op \in {"from_account_info", "__init__"}
     /\ ret.err = "none"
     /\ ret.args # <<>>)
    => /\ PoolSnapshot(pool) = InfoSnapshot(ret.args[1])
       /\ "get_pool_info" \notin ret.calls

-----------------------------------------------------------------------------
(* C11 *)

\* the last call returned a fixed-input swap quote, on a pool with liquidity
\* and positive reserves
FixedInputQuoted ==
    /\ ret.op = "fetch_fixed_input_swap_quote"
    /\ ret.quote = "SwapQuote"
    /\ pool.issued_pool_tokens > 0
    /\ pool.asset_1_reserves > 0
    /\ pool.asset_2_reserves > 0

\* the fixed-output swap quote for the output of that quote, on the same
\* snapshot
RoundTrip ==
    fetch_fixed_output_swap_quote(pool, ret.contents.amounts_out[1][1],
                                  ret.contents.amounts_out[1][2], ret.tolerance)[2]

\* C11 (as stated): for a snapshot with issued_pool_tokens > 0 and positive
\* reserves, the fixed-output swap for the output of a fixed-input swap of x
\* has an input amount of at least x.
C11_RoundTripAtLeastInput ==
    FixedInputQuoted
    => /\ RoundTrip.quote = "SwapQuote"
       /\ RoundTrip.contents.amounts_in[1][2] >= ret.contents.amounts_in[1][2]

\* C11 (amended): the fixed-output swap for the output of a fixed-input swap
\* of x succeeds, and its input less its fee is at most x less the fee of x;
\* where the two are equal its input amount is at least x.
C11_RoundTripNetAtMostInput ==
    FixedInputQuoted
    => /\ RoundTrip.quote = "SwapQuote"
       /\ LET x == ret.contents.amounts_in[1][2]
              fee == ret.contents.swap_fees[2]
              back == RoundTrip.contents.amounts_in[1][2]
              back_fee == RoundTrip.contents.swap_fees[2]
          IN  /\ back - back_fee <= x - fee
              /\ (back - back_fee = x - fee) => back >= x

\* a fixed-input swap of x with a positive fee and a positive output whose
\* round trip asks for less than x
C11_Witness ==
    /\ FixedInputQuoted
    /\ ret.contents.swap_fees[2] > 0
    /\ ret.contents.amounts_out[1][2] > 0
    /\ RoundTrip.quote = "SwapQuote"
    /\ RoundTrip.contents.amounts_in[1][2] < ret.contents.amounts_in[1][2]

-----------------------------------------------------------------------------
(* C12 *)

Product(account) == account.asset_1_reserves * account.asset_2_reserves

\* the step from round r - 1 to round r is a settled swap: the pool had
\* liquidity before it
SwapSettledAt(r) == r \in 1..round /\ ledger[r].issued_pool_tokens > 0

\* C12: over any sequence of settled swaps the product of the reserves never
\* decreases, and no swap pays out the whole of the output reserve (both
\* reserves stay positive).
C12_ProductNeverDecreases ==
    \A r \in 1..round :
        SwapSettledAt(r)
        => /\ Product(ledger[r + 1]) >= Product(ledger[r])
           /\ ledger[r + 1].asset_1_reserves > 0
           /\ ledger[r + 1].asset_2_reserves > 0

\* two swaps were settled one after the other, the second in the opposite
\* direction, and the product grew
C12_Witness ==
    /\ SwapSettledAt(1)
    /\ SwapSettledAt(2)
    /\ ledger[2].asset_1_reserves > ledger[1].asset_1_reserves
    /\ ledger[3].asset_1_reserves < ledger[2].asset_1_reserves
    /\ Product(ledger[3]) > Product(ledger[1])

-----------------------------------------------------------------------------
(* C13 *)

\* the pool account has just received its first liquidity, and the last
\* quote is a remove quote, made on that state, for all the pool tokens
\* that the initial add minted
RemoveAllAfterInitialAdd ==
    /\ round >= 1
    /\ ledger[round].issued_pool_tokens = 0
    /\ chain.issued_pool_tokens > 0
    /\ ret.quote = "RemoveLiquidityQuote"
    /\ pool.last_refreshed_round = round
    /\ ret.contents.pool_token_asset_amount = chain.issued_pool_tokens

\* C13: an initial add of (a, b) on a BootstrappedEmpty pool followed by a
\* proportional remove of the entire minted amount returns at most (a, b),
\* component by component.
C13_RemoveAllReturnsAtMostDeposit ==
    RemoveAllAfterInitialAdd
    => /\ ret.contents.amounts_out[1][2] <= chain.asset_1_reserves
       /\ ret.contents.amounts_out[2][2] <= chain.asset_2_reserves

\* an initial add of different amounts of the two assets, then the remove
\* quote for all that was minted
C13_Witness ==
    /\ RemoveAllAfterInitialAdd
    /\ chain.asset_1_reserves > chain.asset_2_reserves
    /\ chain.issued_pool_tokens > 1

-----------------------------------------------------------------------------
(* C14 *)

\* b is raw * (1 - s) rounded down, and b is raw * (1 + s) rounded up, for a
\* slippage of s hundredths
IsFloorBound(b, raw, s) ==
    /\ b * SlippageScale <= raw * (SlippageScale - s)
    /\ raw * (SlippageScale - s) < (b + 1) * SlippageScale

IsCeilBound(b, raw, s) ==
    /\ (b - 1) * SlippageScale < raw * (SlippageScale + s)
    /\ raw * (SlippageScale + s) <= b * SlippageScale

\* the raw amounts the participant receives according to the quote: the
\* pool tokens minted, or the amounts out
RawReceived(r) ==
    IF r.quote \in AddLiquidityQuotes
    THEN << <<PoolTokenAssetId, r.contents.pool_token_asset_amount>> >>
    ELSE r.contents.amounts_out

\* the raw amounts the participant pays according to the quote: the pool
\* tokens burned, or the amounts in
RawPaid(r) ==
    IF r.quote \in RemoveLiquidityQuotes
    THEN << <<PoolTokenAssetId, r.contents.pool_token_asset_amount>> >>
    ELSE r.contents.amounts_in

\* transactions were prepared from a quote that has a slippage
PreparedWithSlippage ==
    /\ ret.op = "prepare_transactions_from_quote"
    /\ ret.slippage

-----------------------------------------------------------------------------
(* C15 *)

\* the last call asked for a fixed-output swap quote in one of the pool's
\* assets, on a pool with liquidity
FixedOutputAsked ==
    /\ ret.op = "fetch_fixed_output_swap_quote"
    /\ ret.assets[1] \in {pool.asset_1, pool.asset_2}
    /\ pool.exists = "True"
    /\ pool.issued_pool_tokens > 0

\* C15: a fixed-output swap quote for an output amount of at least the
\* reserve of the output asset fails with the insufficient-liquidity error
\* and no quote is returned; for an output amount below the reserve the
\* input less its fee is ceil(input_supply * output_amount / (output_supply
\* - output_amount)), and the fee is the fee of the input (the required
\* amount grossed up by the fee).
C15_FixedOutputSwap ==
    FixedOutputAsked
    => LET asset_out == ret.assets[1]
           amount_out == ret.args[3]
           output_supply == ReserveOf(pool, asset_out)
           input_supply == ReserveOf(pool, OtherAsset(pool, asset_out))
       IN  IF amount_out >= output_supply
           THEN /\ ret.err = "InsufficientLiquidity"
                /\ ret.quote = "None"
                /\ ret.contents = NoQuote
           ELSE /\ ret.err = "none"
                /\ ret.quote = "SwapQuote"
                /\ ret.contents.amounts_out = << <<asset_out, amount_out>> >>
                /\ ret.contents.amounts_in[1][1] = OtherAsset(pool, asset_out)
                /\ LET amount_in == ret.contents.amounts_in[1][2]
                       fee == ret.contents.swap_fees[2]
                       required == amount_in - fee
                   IN  /\ (required - 1) * (output_supply - amount_out)
                             < input_supply * amount_out
                       /\ input_supply * amount_out
                             <= required * (output_supply - amount_out)
                       /\ fee * FeeDenominator <= amount_in * pool.total_fee_share
                       /\ amount_in * pool.total_fee_share < (fee + 1) * FeeDenominator

\* a fixed-output swap quote was asked for exactly the reserve of the output
\* asset, and failed
C15_Witness ==
    /\ FixedOutputAsked
    /\ ret.args[3] = ReserveOf(pool, ret.assets[1])
    /\ ret.err = "InsufficientLiquidity"

-----------------------------------------------------------------------------
(* C17 *)

\* the last call returned a single-asset remove quote
SingleAssetRemoveQuoted ==
    /\ ret.op = "fetch_single_asset_remove_liquidity_quote"
    /\ ret.quote = "SingleAssetRemoveLiquidityQuote"

\* q is n / d rounded down, d positive
IsFloorOf(q, n, d) == q * d <= n /\ n < (q + 1) * d

\* the quote in ret is the one the claim describes for a burn of t with
\* desired asset X: with x and y the proportional payouts of X and of the
\* other asset Y, the internal swap takes y of Y in, charges its fee in Y
\* and pays out in X the fixed-input swap output for supplies
\* reserves_Y - y and reserves_X - x, and amount_out is x plus that output
SingleAssetRemoveAsClaimed ==
    LET X == ret.assets[1]
        Y == OtherAsset(pool, X)
        t == ret.contents.pool_token_asset_amount
        issued == pool.issued_pool_tokens
        swap == ret.contents.internal_swap_quote[1]
        y == swap.amount_in[2]
        fee == swap.swap_fees[2]
        swap_out == swap.amount_out[2]
        x == ret.contents.amounts_out[1][2] - swap_out
        input_supply == ReserveOf(pool, Y) - y
        output_supply == ReserveOf(pool, X) - x
    IN  /\ ret.contents.amounts_out[1][1] = X
        /\ swap.amount_in[1] = Y
        /\ swap.swap_fees[1] = Y
        /\ swap.amount_out[1] = X
        /\ IsFloorOf(x, ReserveOf(pool, X) * t, issued)
        /\ IsFloorOf(y, ReserveOf(pool, Y) * t, issued)
        /\ IsFloorOf(fee, y * pool.total_fee_share, FeeDenominator)
        /\ input_supply + y - fee > 0
        /\ IsFloorOf(swap_out, output_supply * (y - fee), input_supply + y - fee)

\* C17 (as stated): for a single-asset remove of a burn amount t the quote
\* is as described, and its amount_out never exceeds the reserve of the
\* desired asset.
C17_SingleAssetRemove ==
    SingleAssetRemoveQuoted
    => /\ SingleAssetRemoveAsClaimed
       /\ ret.contents.amounts_out[1][2] <= ReserveOf(pool, ret.assets[1])

\* C17 (amended): the same for a burn amount of at most the pool tokens
\* issued.
C17_SingleAssetRemoveOfIssued ==
    (/\ SingleAssetRemoveQuoted
     /\ ret.contents.pool_token_asset_amount <= pool.issued_pool_tokens)
    => /\ SingleAssetRemoveAsClaimed
       /\ ret.contents.amounts_out[1][2] <= ReserveOf(pool, ret.assets[1])

\* a single-asset remove quote for fewer pool tokens than were issued whose
\* internal swap pays out a positive amount
C17_Witness ==
    /\ SingleAssetRemoveQuoted
    /\ ret.contents.pool_token_asset_amount < pool.issued_pool_tokens
    /\ ret.contents.internal_swap_quote[1].amount_out[2] > 0
    /\ ret.contents.internal_swap_quote[1].swap_fees[2] > 0

-----------------------------------------------------------------------------
(* C18 *)

\* the last call returned a single-asset add quote, or failed in the formula
SingleAssetAddAsked ==
    /\ ret.op = "fetch_single_asset_add_liquidity_quote"
    /\ ret.calls # {}

\* the flexible add quote, on the same snapshot, for the amount of that
\* call and a zero amount of the other asset
FlexibleWithZero ==
    fetch_flexible_add_liquidity_quote(
        pool, ret.assets[1], ret.args[IF ret.assets[1] = pool.asset_1 THEN 5 ELSE 6],
        OtherAsset(pool, ret.assets[1]), 0, ret.tolerance)[2]

\* C18: on one snapshot the single-asset add quote for an amount of asset X
\* has the same minted pool-token amount and the same internal swap
\* (direction, amount in, amount out, fee) as the flexible add quote for
\* that amount of X and a zero amount of the other asset, and the input
\* asset of the internal swap is X.
C18_SingleAssetAddIsFlexibleWithZero ==
    SingleAssetAddAsked
    => /\ ret.err = FlexibleWithZero.err
       /\ ret.args = FlexibleWithZero.args
       /\ ret.contents.pool_token_asset_amount
              = FlexibleWithZero.contents.pool_token_asset_amount
       /\ ret.contents.internal_swap_quote
              = FlexibleWithZero.contents.internal_swap_quote
       /\ ret.quote = "SingleAssetAddLiquidityQuote"
          => /\ FlexibleWithZero.quote = "FlexibleAddLiquidityQuote"
             /\ ret.contents.internal_swap_quote[1].amount_in[1] = ret.assets[1]
             /\ ret.contents.internal_swap_quote[1].swap_fees[1] = ret.assets[1]

\* a single-asset add quote for an amount of asset_1 whose internal swap
\* has a fee and pays out a positive amount of asset_2
C18_Witness ==
    /\ SingleAssetAddAsked
    /\ ret.quote = "SingleAssetAddLiquidityQuote"
    /\ ret.assets[1] = pool.asset_1
    /\ ret.contents.pool_token_asset_amount > 0
    /\ ret.contents.internal_swap_quote[1].amount_out[2] > 0
    /\ ret.contents.internal_swap_quote[1].swap_fees[2] > 0
=============================================================================
